---- MODULE Spec2Model ----
\* The two tutorial executables of the repository as one state machine:
\*   o2at-skimming.cxx       (ReadHFCandidates, ProduceDerivedTable,
\*                            ProduceDerivedTableFilter, ReadDerivedTable x2)
\*   o2at-h3-1-v0example.cxx (vzeroexample)
\* A run is one of the two executables (variable program).  Floating point
\* momenta are integers; a square root is carried in tenths (Sqrt10).
EXTENDS Integers, Sequences, FiniteSets, TLC

\* ---------------------------------------------------------------- bounds
MaxCands == 2        \* rows of HfCandProng2
MaxTracks == 2       \* rows of Tracks
MaxCalls == 2        \* calls of vzeroexample::process (collisions of the run)
MaxV0s == 2          \* rows of V0Datas handed to one call

\* ------------------------------------------------------- program constants
D0ToPiK == 0         \* aod::hf_cand_prong2::DecayType::D0ToPiK, the bit tested
ptCut == 4           \* the literal 4. of ptFilter

\* ------------------------------------------------------------ input domains
PxPy == {<<1, 0>>, <<4, 0>>, <<3, 4>>}      \* pT = 1, 4 (the cut itself), 5
HfFlags == {1, 2}                           \* bit 0 set / only another bit set
SeqsUpTo(S, n) == UNION {[1..k -> S] : k \in 0..n}

\* Tracks tables: n rows, grouped by collision as the framework stores them;
\* the track at 0-based index i belongs to collision i + 1, so that the
\* collisionId of a row tells which track it was read from
TracksOfLen(n) == [k \in 1..n |-> [collisionId |-> k]]
TrackTables == {TracksOfLen(n) : n \in 1..MaxTracks}

\* candidate rows over a Tracks table of n rows: index0 is any valid 0-based
\* position, or n, the first position past the end of Tracks
CandidatesFor(n) ==
  {[px |-> m[1], py |-> m[2], hfflag |-> f, index0 |-> k] :
      m \in PxPy, f \in HfFlags, k \in 0..n}

\* the arguments of one call of vzeroexample::process: a collision row of
\* Join<Collisions, EvSels> and the V0Datas rows handed over with it
PosZs == {-1, 1}
Masses == {0, 1}
Collisions == [sel8 : BOOLEAN, posZ : PosZs]
V0Rows == [mK0Short : Masses]
V0Tables == SeqsUpTo(V0Rows, MaxV0s)

VARIABLES
  program,                  \* "skimming" or "v0": the executable that runs
  cand2Prongs,              \* aod::HfCandProng2, the raw candidate table
  tracks,                   \* aod::Tracks, the raw track table
  workflow,                 \* the WorkflowSpec, <<>> before it is defined
  route,                    \* the stage whose MyTable the readers are given
  stagePc,                  \* per stage: "waiting", "running", "done", "failed"
  it,                       \* per stage: position of the range-for iterator
  tableWithDzeroCandidates, \* per stage: rows appended through Produces<MyTable>
  origin,                   \* per stage: candidate position of each appended row
  finalized,                \* per stage: its MyTable is complete (process returned)
  logged,                   \* per stage: number of LOG(debug) lines written
  registry,                 \* per stage: the HistogramRegistry, a list of fills per histogram
  v0Pc,                     \* vzeroexample::process: "idle", "called", "loop"
  calls,                    \* number of calls of vzeroexample::process so far
  collision,                \* the collision argument of the current (or last) call
  V0s,                      \* the V0Datas argument of the current (or last) call
  v0It,                     \* position of the range-for iterator over V0s
  v0Registry,               \* the registry of vzeroexample: fills per histogram
  atEntry,                  \* v0Registry as it was when the current call began
  acceptedV0Rows            \* rows of V0s summed over the calls that passed sel8

skimVars == <<program, cand2Prongs, tracks, workflow, route, stagePc, it,
              tableWithDzeroCandidates, origin, finalized, logged, registry>>
v0Vars == <<v0Pc, calls, collision, V0s, v0It, v0Registry, atEntry, acceptedV0Rows>>
vars == <<skimVars, v0Vars>>

\* ------------------------------------------------------------ pure helpers
\* ROOT's TESTBIT(n, i): bit i of n is set
TESTBIT(n, i) == (n \div (2 ^ i)) % 2 = 1

\* std::sqrt, in tenths, digit by digit: the integer part a, then the tenths
\* digit d; the result is the largest n = 10a + d with (n/10)^2 <= x
Sqrt10(x) ==
  LET a == CHOOSE i \in 0..x : i * i <= x /\ (i + 1) * (i + 1) > x
      d == CHOOSE j \in 0..9 :
             /\ (10 * a + j) * (10 * a + j) <= 100 * x
             /\ (10 * a + j + 1) * (10 * a + j + 1) > 100 * x
  IN 10 * a + d

\* hf_cand_prong2 pt(): sqrt(px^2 + py^2), in tenths
Pt(cand) == Sqrt10(cand.px * cand.px + cand.py * cand.py)

\* cpa() and the two mass hypotheses are functions of the candidate row whose
\* bodies live in the data-model headers: uninterpreted terms over the row
Cpa(cand) == <<"cpa", cand>>
InvMassD0(cand) == <<"InvMassD0", cand>>
InvMassD0bar(cand) == <<"InvMassD0bar", cand>>

\* mutant of ptFilter: the cut itself is let through (>= for >)
ptFilter_inclusive(cand) ==
  Sqrt10(cand.px * cand.px + cand.py * cand.py) >= 10 * ptCut

\* Filter ptFilter = sqrt(px*px + py*py) > 4.  (On the integer momenta of the
\* model the comparison in tenths is exact: 17 has root 4.1, 16 has root 4.0.)
ptFilter(cand) == Sqrt10(cand.px * cand.px + cand.py * cand.py) > 10 * ptCut

\* soa::Filtered<HfCandProng2>: the positions of the rows selected by ptFilter,
\* gathered by one scan of the table from its first row to its last
RECURSIVE FilteredScan(_, _)
FilteredScan(table, n) ==
  IF n = 0 THEN <<>>
  ELSE IF ptFilter(table[n]) THEN Append(FilteredScan(table, n - 1), n)
       ELSE FilteredScan(table, n - 1)

\* mutant of FilteredView: the scan starts at the second row
FilteredView_skipFirst(table) ==
  SelectSeq(FilteredScan(table, Len(table)), LAMBDA p : p > 1)

\* the filtered view of a whole table
FilteredView(table) == FilteredScan(table, Len(table))

\* an unfiltered table argument: every position, in table order
AllRows(table) == [k \in 1..Len(table) |-> k]

\* ------------------------------------------------------------------ stages
NStages == 5
Stages == 1..NStages
HistNames == {"hMassD0", "hMassD0bar", "hPt", "hCosp"}
EmptyRegistry == [h \in HistNames |-> <<>>]

\* the table identity a task declares through a Produces<> member, "" if none
Output(task) ==
  IF task \in {"ProduceDerivedTable", "ProduceDerivedTableFilter"}
  THEN "AOD/MYTABLE" ELSE ""

\* the table identity a task subscribes to besides the raw tables, "" if none
Input(task) == IF task = "ReadDerivedTable" THEN "AOD/MYTABLE" ELSE ""

\* the stages of w declaring the output identity id
ProducersOf(w, id) == {s \in DOMAIN w : Output(w[s]) = id}

\* the MyTable given to the readers: the rows of the producer they are bound to
MyTable == tableWithDzeroCandidates[route]

\* bool isD0Sel = TESTBIT(cand.hfflag(), DecayType::D0ToPiK)
isD0Sel(cand) == TESTBIT(cand.hfflag, D0ToPiK)

\* index0_as<aod::Tracks>() has a row to return: index0 is a 0-based position
ValidIndex(i) == 0 <= i /\ i < Len(tracks)

\* the row whose index0 is i (positions of a sequence are 1-based)
TrackAt(i) == tracks[i + 1]

\* what a read through an index outside Tracks can yield as collisionId: a
\* value no track carries, or one that happens to be a track's collisionId
GarbageIds == {-1, tracks[1].collisionId}

\* DECLARE_SOA_TABLE(MyTable, ...): the columns of a row, in declaration order
Schema == <<"InvMassD0", "InvMassD0bar", "Pt", "CosinePointing", "CollisionId">>

\* the getters of a MyTable row
invMassD0(row) == row[1]
invMassD0bar(row) == row[2]
pt(row) == row[3]
cosinePointing(row) == row[4]
collisionId(row) == row[5]

\* mutant of MyTableRow: the two mass hypotheses passed in each other's place
MyTableRow_swapped(cand, collId) ==
  <<InvMassD0bar(cand), InvMassD0(cand), Pt(cand), Cpa(cand), collId>>

\* the arguments of the cursor call tableWithDzeroCandidates(...), which
\* become the row appended
MyTableRow(cand, collId) ==
  <<InvMassD0(cand), InvMassD0bar(cand), Pt(cand), Cpa(cand), collId>>

\* the rows the range-for of stage s walks over
View(s) ==
  CASE workflow[s] = "ProduceDerivedTableFilter" -> FilteredView(cand2Prongs)
    [] workflow[s] = "ReadDerivedTable" -> AllRows(MyTable)
    [] OTHER -> AllRows(cand2Prongs)

\* the positions the loop body of stage s has been entered for so far
Visited(s) == SubSeq(View(s), 1, it[s] - 1)

EmptyV0Registry == [hVertexZ |-> <<>>, hMassK0Short |-> <<>>]

InitStages ==
  /\ workflow = <<>>
  /\ route = 0
  /\ stagePc = [s \in Stages |-> "waiting"]
  /\ it = [s \in Stages |-> 1]
  /\ tableWithDzeroCandidates = [s \in Stages |-> <<>>]
  /\ origin = [s \in Stages |-> <<>>]
  /\ finalized = [s \in Stages |-> FALSE]
  /\ logged = [s \in Stages |-> 0]
  /\ registry = [s \in Stages |-> EmptyRegistry]

InitV0 ==
  /\ v0Pc = "idle"
  /\ calls = 0
  /\ collision = [sel8 |-> FALSE, posZ |-> 1]
  /\ V0s = <<>>
  /\ v0It = 1
  /\ v0Registry = EmptyV0Registry
  /\ atEntry = EmptyV0Registry
  /\ acceptedV0Rows = 0

\* one of the two executables is started on its input tables
Init ==
  /\ InitStages
  /\ InitV0
  /\ \/ /\ program = "skimming"
        /\ tracks \in TrackTables
        /\ cand2Prongs \in SeqsUpTo(CandidatesFor(Len(tracks)), MaxCands)
     \/ /\ program = "v0"
        /\ tracks = <<>>
        /\ cand2Prongs = <<>>

\* defineDataProcessing: the five tasks, in this order; nothing is validated.
\* The readers are bound to a stage declaring the identity they subscribe to.
defineDataProcessing ==
  /\ program = "skimming"
  /\ workflow = <<>>
  /\ workflow' = <<"ReadHFCandidates", "ProduceDerivedTable",
                   "ProduceDerivedTableFilter", "ReadDerivedTable",
                   "ReadDerivedTable">>
  /\ route' \in ProducersOf(workflow', Input("ReadDerivedTable"))
  /\ UNCHANGED <<program, cand2Prongs, tracks, stagePc, it,
                 tableWithDzeroCandidates, origin, finalized, logged, registry, v0Vars>>

\* mutant of CanStart: a stage may start whatever the stages before it do
CanStart_unordered(s) ==
  /\ workflow # <<>>
  /\ stagePc[s] = "waiting"

\* stages run one after the other, in declaration order, each after the one
\* before it has completed; a failed stage aborts the rest of the run
CanStart(s) ==
  /\ workflow # <<>>
  /\ stagePc[s] = "waiting"
  /\ IF s = 1 THEN TRUE ELSE stagePc[s - 1] = "done"

\* the framework calls process() of stage s
StartStage(s) ==
  /\ CanStart(s)
  /\ stagePc' = [stagePc EXCEPT ![s] = "running"]
  /\ UNCHANGED <<program, cand2Prongs, tracks, workflow, route, it,
                 tableWithDzeroCandidates, origin, finalized, logged, registry, v0Vars>>

InLoop(s, task) ==
  /\ workflow # <<>>
  /\ workflow[s] = task
  /\ stagePc[s] = "running"
  /\ it[s] <= Len(View(s))

\* ReadHFCandidates::process, one pass of the loop body
ReadHFCandidates_body(s) ==
  /\ InLoop(s, "ReadHFCandidates")
  /\ LET cand == cand2Prongs[View(s)[it[s]]] IN
       logged' = [logged EXCEPT ![s] = IF isD0Sel(cand) THEN @ + 1 ELSE @]
  /\ it' = [it EXCEPT ![s] = @ + 1]
  /\ UNCHANGED <<program, cand2Prongs, tracks, workflow, route, stagePc,
                 tableWithDzeroCandidates, origin, finalized, registry, v0Vars>>

\* the tail of a producer's loop body, from the LOG line on: the daughter
\* lookup and the cursor call.  An index0 outside Tracks is read without a
\* check: the read either faults or yields some value.
LookupAndAppend(s, cand) ==
  /\ logged' = [logged EXCEPT ![s] = @ + 1]
  /\ \/ /\ ValidIndex(cand.index0)
        /\ tableWithDzeroCandidates' =
             [tableWithDzeroCandidates EXCEPT
                ![s] = Append(@, MyTableRow(cand, TrackAt(cand.index0).collisionId))]
        /\ origin' = [origin EXCEPT ![s] = Append(@, View(s)[it[s]])]
        /\ it' = [it EXCEPT ![s] = @ + 1]
        /\ UNCHANGED stagePc
     \/ /\ ~ValidIndex(cand.index0)
        /\ \E g \in GarbageIds :
             tableWithDzeroCandidates' =
               [tableWithDzeroCandidates EXCEPT ![s] = Append(@, MyTableRow(cand, g))]
        /\ origin' = [origin EXCEPT ![s] = Append(@, View(s)[it[s]])]
        /\ it' = [it EXCEPT ![s] = @ + 1]
        /\ UNCHANGED stagePc
     \/ /\ ~ValidIndex(cand.index0)
        /\ stagePc' = [stagePc EXCEPT ![s] = "failed"]
        /\ UNCHANGED <<tableWithDzeroCandidates, origin, it>>

\* ProduceDerivedTable::process, one pass of the loop body
ProduceDerivedTable_body(s) ==
  /\ InLoop(s, "ProduceDerivedTable")
  /\ LET cand == cand2Prongs[View(s)[it[s]]] IN
       \/ /\ ~isD0Sel(cand)
          /\ it' = [it EXCEPT ![s] = @ + 1]
          /\ UNCHANGED <<stagePc, tableWithDzeroCandidates, origin, logged>>
       \/ /\ isD0Sel(cand)
          /\ LookupAndAppend(s, cand)
  /\ UNCHANGED <<program, cand2Prongs, tracks, workflow, route, finalized, registry, v0Vars>>

\* mutant of ProduceDerivedTableFilter_body: the isD0Sel check is missing
ProduceDerivedTableFilter_body_noFlag(s) ==
  /\ InLoop(s, "ProduceDerivedTableFilter")
  /\ LookupAndAppend(s, cand2Prongs[View(s)[it[s]]])
  /\ UNCHANGED <<program, cand2Prongs, tracks, workflow, route, finalized, registry, v0Vars>>

\* ProduceDerivedTableFilter::process, one pass of the loop body
ProduceDerivedTableFilter_body(s) ==
  /\ InLoop(s, "ProduceDerivedTableFilter")
  /\ LET cand == cand2Prongs[View(s)[it[s]]] IN
       \/ /\ ~isD0Sel(cand)
          /\ it' = [it EXCEPT ![s] = @ + 1]
          /\ UNCHANGED <<stagePc, tableWithDzeroCandidates, origin, logged>>
       \/ /\ isD0Sel(cand)
          /\ LookupAndAppend(s, cand)
  /\ UNCHANGED <<program, cand2Prongs, tracks, workflow, route, finalized, registry, v0Vars>>

\* the four registry.fill calls of ReadDerivedTable for one row
Fill(reg, cand) ==
  [hMassD0 |-> Append(reg.hMassD0, invMassD0(cand)),
   hMassD0bar |-> Append(reg.hMassD0bar, invMassD0bar(cand)),
   hPt |-> Append(reg.hPt, pt(cand)),
   hCosp |-> Append(reg.hCosp, cosinePointing(cand))]

\* mutant of ReadDerivedTable_body: the row read is taken out of the table
ReadDerivedTable_body_draining(s) ==
  /\ InLoop(s, "ReadDerivedTable")
  /\ registry' = [registry EXCEPT ![s] = Fill(@, MyTable[1])]
  /\ tableWithDzeroCandidates' = [tableWithDzeroCandidates EXCEPT ![route] = Tail(@)]
  /\ UNCHANGED <<program, cand2Prongs, tracks, workflow, route, stagePc, it,
                 origin, finalized, logged, v0Vars>>

\* mutant of ReadDerivedTable_body: one registry shared by every instance
ReadDerivedTable_body_shared(s) ==
  /\ InLoop(s, "ReadDerivedTable")
  /\ LET first == CHOOSE r \in Stages :
                    /\ workflow[r] = "ReadDerivedTable"
                    /\ \A q \in Stages : workflow[q] = "ReadDerivedTable" => r <= q
     IN registry' = [registry EXCEPT ![first] = Fill(@, MyTable[View(s)[it[s]]])]
  /\ it' = [it EXCEPT ![s] = @ + 1]
  /\ UNCHANGED <<program, cand2Prongs, tracks, workflow, route, stagePc,
                 tableWithDzeroCandidates, origin, finalized, logged, v0Vars>>

\* ReadDerivedTable::process, one pass of the loop body: four fills
ReadDerivedTable_body(s) ==
  /\ InLoop(s, "ReadDerivedTable")
  /\ registry' = [registry EXCEPT ![s] = Fill(@, MyTable[View(s)[it[s]]])]
  /\ it' = [it EXCEPT ![s] = @ + 1]
  /\ UNCHANGED <<program, cand2Prongs, tracks, workflow, route, stagePc,
                 tableWithDzeroCandidates, origin, finalized, logged, v0Vars>>

\* the range-for of stage s is exhausted and process() returns; the table of a
\* Produces<> member is complete from here on
ProcessReturns(s) ==
  /\ workflow # <<>>
  /\ stagePc[s] = "running"
  /\ it[s] > Len(View(s))
  /\ stagePc' = [stagePc EXCEPT ![s] = "done"]
  /\ finalized' = [finalized EXCEPT ![s] = (Output(workflow[s]) # "")]
  /\ UNCHANGED <<program, cand2Prongs, tracks, workflow, route, it,
                 tableWithDzeroCandidates, origin, logged, registry, v0Vars>>

\* the framework calls vzeroexample::process for the next collision of the run
vzeroexample_call ==
  /\ program = "v0"
  /\ v0Pc = "idle"
  /\ calls < MaxCalls
  /\ \E c \in Collisions, t \in V0Tables :
       /\ collision' = c
       /\ V0s' = t
       /\ acceptedV0Rows' = IF c.sel8 THEN acceptedV0Rows + Len(t) ELSE acceptedV0Rows
  /\ v0Pc' = "called"
  /\ calls' = calls + 1
  /\ v0It' = 1
  /\ atEntry' = v0Registry
  /\ UNCHANGED <<skimVars, v0Registry>>

\* mutant of acceptsCollision: the early return is missing
acceptsCollision_always(c) == TRUE

\* if (!collision.sel8()) return;  -- the call goes on only past this line
acceptsCollision(c) == c.sel8

\* vzeroexample::process up to the loop: the event selection, then the
\* hVertexZ fill
vzeroexample_select ==
  /\ v0Pc = "called"
  /\ \/ /\ ~acceptsCollision(collision)
        /\ v0Pc' = "idle"
        /\ UNCHANGED v0Registry
     \/ /\ acceptsCollision(collision)
        /\ v0Registry' = [v0Registry EXCEPT !.hVertexZ = Append(@, collision.posZ)]
        /\ v0Pc' = "loop"
  /\ UNCHANGED <<skimVars, calls, collision, V0s, v0It, atEntry, acceptedV0Rows>>

\* vzeroexample::process, one pass of the loop over V0s
vzeroexample_body ==
  /\ v0Pc = "loop"
  /\ v0It <= Len(V0s)
  /\ v0Registry' = [v0Registry EXCEPT !.hMassK0Short = Append(@, V0s[v0It].mK0Short)]
  /\ v0It' = v0It + 1
  /\ UNCHANGED <<skimVars, v0Pc, calls, collision, V0s, atEntry, acceptedV0Rows>>

\* the loop over V0s is exhausted and process() returns
vzeroexample_return ==
  /\ v0Pc = "loop"
  /\ v0It > Len(V0s)
  /\ v0Pc' = "idle"
  /\ UNCHANGED <<skimVars, calls, collision, V0s, v0It, v0Registry, atEntry, acceptedV0Rows>>

Next ==
  \/ defineDataProcessing
  \/ \E s \in Stages : StartStage(s)
  \/ \E s \in Stages : ReadHFCandidates_body(s)
  \/ \E s \in Stages : ProduceDerivedTable_body(s)
  \/ \E s \in Stages : ProduceDerivedTableFilter_body(s)
  \/ \E s \in Stages : ReadDerivedTable_body(s)
  \/ \E s \in Stages : ProcessReturns(s)
  \/ vzeroexample_call
  \/ vzeroexample_select
  \/ vzeroexample_body
  \/ vzeroexample_return

Spec == Init /\ [][Next]_vars

\* ------------------------------------------------------------------ claims
\* the stages of the workflow running the task
StagesOf(task) == {s \in Stages : workflow # <<>> /\ workflow[s] = task}

\* the squared transverse momentum passes the cut: px^2 + py^2 > 16
AboveCut(cand) == cand.px * cand.px + cand.py * cand.py > ptCut * ptCut

StrictlyIncreasing(q) == \A j, k \in 1..Len(q) : j < k => q[j] < q[k]
Range(q) == {q[k] : k \in 1..Len(q)}

\* every D0-tagged candidate has a daughter track to look up
DaughtersExist ==
  \A p \in 1..Len(cand2Prongs) :
    isD0Sel(cand2Prongs[p]) => ValidIndex(cand2Prongs[p].index0)

\* the row the claims expect for the candidate at position p
ExpectedRow(p) ==
  LET cand == cand2Prongs[p] IN
    <<InvMassD0(cand), InvMassD0bar(cand), Pt(cand), Cpa(cand),
      TrackAt(cand.index0).collisionId>>

\* C1: in ProduceDerivedTableFilter the loop body is entered only for
\* candidates with px^2 + py^2 > 16, and every row appended comes from such a
\* candidate, so the table has at most as many rows as candidates pass the cut.
C1_TransformOnlyPastFilter ==
  \A s \in StagesOf("ProduceDerivedTableFilter") :
    /\ \A k \in 1..Len(Visited(s)) : AboveCut(cand2Prongs[Visited(s)[k]])
    /\ \A k \in 1..Len(origin[s]) : AboveCut(cand2Prongs[origin[s][k]])
    /\ Len(tableWithDzeroCandidates[s]) = Len(origin[s])
    /\ Len(tableWithDzeroCandidates[s]) <=
         Cardinality({p \in 1..Len(cand2Prongs) : AboveCut(cand2Prongs[p])})

\* C1 witness: the filtered producer has returned with a row written, having
\* left out a D0-tagged candidate (with a daughter) that sits on or below the cut
C1_Witness ==
  \E s \in StagesOf("ProduceDerivedTableFilter") :
    /\ stagePc[s] = "done"
    /\ Len(tableWithDzeroCandidates[s]) > 0
    /\ \E p \in 1..Len(cand2Prongs) :
         /\ ~AboveCut(cand2Prongs[p])
         /\ isD0Sel(cand2Prongs[p])
         /\ ValidIndex(cand2Prongs[p].index0)

\* C2 (as claimed): a workflow in which two stages declare the same output
\* table is rejected when it is built, so none of its stages ever runs.
C2_DuplicateProducerRejected ==
  (workflow # <<>> /\ \E a, b \in DOMAIN workflow :
      a # b /\ Output(workflow[a]) # "" /\ Output(workflow[a]) = Output(workflow[b]))
  => \A s \in Stages : stagePc[s] = "waiting"

\* C3: the rows ProduceDerivedTableFilter::process iterates are visited in
\* strictly increasing position, each passes the cut, none that passes is
\* missing once the loop is over, and the view is no longer than the table.
C3_FilteredViewExact ==
  \A s \in StagesOf("ProduceDerivedTableFilter") :
    /\ StrictlyIncreasing(Visited(s))
    /\ Range(Visited(s)) \subseteq {p \in 1..Len(cand2Prongs) : AboveCut(cand2Prongs[p])}
    /\ stagePc[s] = "done" =>
         Range(Visited(s)) = {p \in 1..Len(cand2Prongs) : AboveCut(cand2Prongs[p])}
    /\ Len(View(s)) <= Len(cand2Prongs)

\* C3 witness: the loop is over; it visited the second row and not the first
C3_Witness ==
  \E s \in StagesOf("ProduceDerivedTableFilter") :
    /\ stagePc[s] = "done"
    /\ Visited(s) = <<2>>

C5_ReaderAfterFinalize ==
  \A s \in StagesOf("ReadDerivedTable") :
    /\ stagePc[s] \in {"running", "done"} =>
         (finalized[route] /\ stagePc[route] = "done")
    /\ stagePc[s] = "done" =>
         (it[s] - 1 = Len(MyTable) /\ Len(registry[s].hPt) = Len(MyTable))

\* C5 witness: a reader is in its loop, one row read, over a table of two rows
C5_Witness ==
  \E s \in StagesOf("ReadDerivedTable") :
    /\ stagePc[s] = "running"
    /\ it[s] = 2
    /\ Len(MyTable) >= 2

\* C6 (as claimed): no row of a derived table comes from a candidate whose
\* index0 lies outside Tracks: the stage fails at such a candidate instead.
C6_DanglingReferenceRaised ==
  \A s \in Stages : \A k \in 1..Len(origin[s]) :
    ValidIndex(cand2Prongs[origin[s][k]].index0)

\* C7: no step changes HfCandProng2 or Tracks, no step changes the rows of a
\* MyTable whose producer has returned, and a step of a ReadDerivedTable
\* leaves every MyTable as it is.
C7_TablesImmutable ==
  [][/\ cand2Prongs' = cand2Prongs
     /\ tracks' = tracks
     /\ \A s \in Stages :
          finalized[s] => tableWithDzeroCandidates'[s] = tableWithDzeroCandidates[s]
     /\ (\E s \in StagesOf("ReadDerivedTable") : stagePc[s] = "running")
          => tableWithDzeroCandidates' = tableWithDzeroCandidates]_vars

\* C7 witness: every stage has run over non-empty tables and MyTable has rows
C7_Witness ==
  /\ workflow # <<>>
  /\ \A s \in Stages : stagePc[s] = "done"
  /\ Len(cand2Prongs) > 0
  /\ Len(MyTable) > 0

\* the fills one run of ReadDerivedTable over table makes, per histogram
FillsOf(table) ==
  [hMassD0 |-> [k \in 1..Len(table) |-> table[k][1]],
   hMassD0bar |-> [k \in 1..Len(table) |-> table[k][2]],
   hPt |-> [k \in 1..Len(table) |-> table[k][3]],
   hCosp |-> [k \in 1..Len(table) |-> table[k][4]]]

\* C8: the workflow with ReadDerivedTable registered twice is built; each
\* instance that has returned has filled each of its four histograms once per
\* row of the one MyTable, with that row's column; a step of one instance
\* changes neither a table nor the other instance's histograms.
C8_RepeatedReaderIdempotent ==
  /\ [](workflow # <<>> => Cardinality(StagesOf("ReadDerivedTable")) = 2)
  /\ [](\A s \in StagesOf("ReadDerivedTable") :
          stagePc[s] = "done" => registry[s] = FillsOf(MyTable))
  /\ [][\A s \in StagesOf("ReadDerivedTable") :
          stagePc[s] = "running" =>
            /\ tableWithDzeroCandidates' = tableWithDzeroCandidates
            /\ \A r \in Stages \ {s} : registry'[r] = registry[r]]_vars

\* C8 witness: both instances have returned, each with two fills per histogram
C8_Witness ==
  /\ Cardinality(StagesOf("ReadDerivedTable")) = 2
  /\ \A s \in StagesOf("ReadDerivedTable") :
       stagePc[s] = "done" /\ Len(registry[s].hMassD0) = 2

\* the mK0Short column of a V0 table
MassesOf(table) == [k \in 1..Len(table) |-> table[k].mK0Short]

\* C9: a call of vzeroexample::process with sel8 false leaves both histograms
\* as they were; a call with sel8 true adds posZ to hVertexZ once, before any
\* hMassK0Short fill, and mK0Short of each row of V0s to hMassK0Short, in row
\* order; between calls hMassK0Short holds as many entries as the accepted
\* collisions had V0 rows.
C9_V0Fills ==
  /\ (v0Pc = "idle" /\ calls > 0 /\ ~collision.sel8) => v0Registry = atEntry
  /\ (v0Pc = "idle" /\ calls > 0 /\ collision.sel8) =>
       /\ v0Registry.hVertexZ = Append(atEntry.hVertexZ, collision.posZ)
       /\ v0Registry.hMassK0Short = atEntry.hMassK0Short \o MassesOf(V0s)
  /\ Len(v0Registry.hMassK0Short) > Len(atEntry.hMassK0Short) =>
       v0Registry.hVertexZ = Append(atEntry.hVertexZ, collision.posZ)
  /\ v0Pc = "idle" => Len(v0Registry.hMassK0Short) = acceptedV0Rows

\* C9 witness: an accepted call with V0 rows was followed by a rejected call
\* that had V0 rows too, and process has returned
C9_Witness ==
  /\ v0Pc = "idle"
  /\ calls = 2
  /\ ~collision.sel8
  /\ Len(V0s) > 0
  /\ Len(v0Registry.hMassK0Short) > 0

====
